---- MODULE Spec2Model ----
(***************************************************************************)
(* A model of httprotocol's HttpClient (src/src/client.py): the request    *)
(* execution pipeline of one client instance used by concurrent callers.   *)
(* The state is the client's configuration, its lock, its cookie jar and   *)
(* cookie file, and, for every caller, the position of its logical call,   *)
(* the locals of _retry_request and the locals of the streaming loops.     *)
(* The transport (urllib's opener) is the environment: every exchange ends *)
(* in a fault, in a response with some status, or in a response whose      *)
(* compressed body is malformed.                                           *)
(***************************************************************************)
EXTENDS Integers, Sequences, FiniteSets, TLC

\* Bounds of the model.
MaxRetries == 3
MaxBody == 2
MaxStreamBody == 8
MaxStreamChunk == 3
MaxMiddleware == 2
MaxStatus == 600

\* The concurrent callers of the one client instance.
Calls == {"c1", "c2"}
NoCall == "none"

\* HttpClient.RETRY_STATUSES
RETRY_STATUSES == {429, 500, 502, 503, 504}

\* The statuses the server answers with in the model: a success, an error
\* outside the retryable set, an error inside it.
Statuses == {200, 404, 503}

\* The backoff_factor values a client is constructed with in the model.
BackoffFactors == {1, 2}

\* The chunk_size values a streaming call is made with in the model.
ChunkSizes == {1, 2}

VARIABLES
    max_retries,      \* self.max_retries
    backoff_factor,   \* self.backoff_factor
    cookie_file,      \* whether self.cookie_file is configured
    _lock,            \* holder of self._lock, or NoCall
    cookie_jar,       \* self.cookie_jar: cookie name -> value, 0 = no cookie
    cookie_store,     \* contents of the cookie file
    pc,               \* position of each caller's logical call
    call,             \* the execution primitive the caller is in
    attempt,          \* _retry_request: the loop variable attempt
    exchanges,        \* transport exchanges opened by the logical call
    sleeps,           \* durations passed to time.sleep, in order
    outcome,          \* what the transport delivered in the latest exchange
    last_exception,   \* _retry_request: last_exception / the exception raised
    result,           \* status_code of the returned HttpResponse, 0 = none
    only_retryable,   \* history: every exchange so far reported a retryable status
    chunk_size,       \* streaming: chunk_size argument
    body,             \* streaming: the bytes of the response body
    body_left,        \* streaming: bytes of the body not yet read
    chunks,           \* streaming: the chunks yielded / written, in order
    auth,             \* self.auth
    default_headers,  \* self.default_headers
    middleware,       \* self.middleware
    request,          \* the Request object the current call has built
    sent,             \* the requests handed to opener.open, in order
    response,         \* an HttpResponse
    observed          \* what ok, is_success and raise_for_status gave for it

vars == <<max_retries, backoff_factor, cookie_file, _lock, cookie_jar,
          cookie_store, pc, call, attempt, exchanges, sleeps, outcome,
          last_exception, result, only_retryable, chunk_size, body,
          body_left, chunks, auth, default_headers, middleware, request,
          sent, response, observed>>

config == <<max_retries, backoff_factor, cookie_file, auth, default_headers>>
request_vars == <<middleware, request, sent>>
response_vars == <<response, observed>>
retry_vars == <<attempt, sleeps, last_exception, result>>
stream_vars == <<chunk_size, body, body_left, chunks>>

----------------------------------------------------------------------------
\* Values

NoOutcome == [kind |-> "none", status |-> 0]
Fault == [kind |-> "fault", status |-> 0]
Response(s) == [kind |-> "response", status |-> s]
Malformed(s) == [kind |-> "malformed", status |-> s]

\* What one exchange can end in.  do_download never decodes the body, so a
\* malformed compressed body is an ordinary response there.
Outcomes(c) ==
    {Fault} \cup {Response(s) : s \in Statuses}
            \cup (IF c = "_request" THEN {Malformed(s) : s \in Statuses} ELSE {})

NoException == [type |-> "None", code |-> 0]
Exc(type, code) == [type |-> type, code |-> code]

RECURSIVE Pow2(_)
Pow2(n) == IF n = 0 THEN 1 ELSE 2 * Pow2(n - 1)

Min(a, b) == IF a <= b THEN a ELSE b

\* A body of n bytes; byte i is told from the others by its value i.
Bytes(n) == [i \in 1..n |-> i]

\* A variant that counts 300 as a success.
okThrough300(status_code) == 200 <= status_code /\ status_code <= 300

\* HttpResponse.ok
ok(status_code) == 200 <= status_code /\ status_code < 300

\* urllib's HTTPErrorProcessor: a status outside 2xx is raised as HTTPError.
IsHTTPError(status) == ~(200 <= status /\ status < 300)

\* A variant that skips the status check on the last attempt.
IsRetryStatusNotLast(status, n) == status \in RETRY_STATUSES /\ n < max_retries

\* _retry_request: "status_code in self.RETRY_STATUSES" / "e.code in ..."
IsRetryStatus(status, n) == status \in RETRY_STATUSES

\* _retry_request: the argument of time.sleep
Backoff(n) == backoff_factor * Pow2(n - 1)

\* A variant that replaces the jar instead of merging into it.
SetCookieReplace(jar, t, v) == [n \in Calls |-> IF n = t THEN v ELSE 0]

\* HTTPCookieProcessor.http_response: the response of caller t's exchange
\* sets the cookie named t; the value is the number of the exchange.
SetCookie(jar, t, v) == [jar EXCEPT ![t] = v]

LockTaking(t) == call[t] \in {"_request", "download"}
Streaming(t) == call[t] \in {"download_stream", "stream_response"}

----------------------------------------------------------------------------
\* Headers, credentials and bodies

\* A header mapping is a function from header names to values; a value is a
\* sequence of pieces of text, read as their concatenation.
NoHeaders == [k \in {} |-> <<>>]
Header(k, v) == [n \in {k} |-> v]

\* dict.update
Update(d, e) == [k \in DOMAIN d \cup DOMAIN e |-> IF k \in DOMAIN e THEN e[k] ELSE d[k]]

\* HttpClient.__init__: the headers used when default_headers is not given
BuiltinHeaders ==
    [k \in {"User-Agent", "Accept-Encoding", "Accept", "Connection"} |->
        CASE k = "User-Agent" -> <<"HttpClient/4.0">>
          [] k = "Accept-Encoding" -> <<"gzip, deflate">>
          [] k = "Accept" -> <<"*/*">>
          [] k = "Connection" -> <<"keep-alive">>]

\* The default_headers a client is constructed with in the model.
DefaultHeaders == {BuiltinHeaders, Header("Accept", <<"*/*">>)}

\* Credentials are a pair of texts, each given by its bytes; no credentials
\* is the empty tuple.
NoAuth == <<>>
Postman == <<112, 111, 115, 116, 109, 97, 110>>
Password == <<112, 97, 115, 115, 119, 111, 114, 100>>
Auths == {NoAuth, <<Postman, Password>>, <<<<117>>, <<112>>>>, <<<<97, 98>>, <<99, 100>>>>}

\* The headers argument of a call in the model.
CallHeaders ==
    {NoHeaders,
     Header("Accept", <<"application/json">>),
     Header("Authorization", <<"Bearer ", "token">>),
     Header("Content-Type", <<"application/json">>),
     Header("Content-Type", <<"Application/JSON">>),
     Header("Content-Type", <<"application/x-www-form-urlencoded">>),
     Header("Content-Type", <<"text/plain">>)}

\* The alphabet of base64.
B64 ==
    <<"A", "B", "C", "D", "E", "F", "G", "H", "I", "J", "K", "L", "M",
      "N", "O", "P", "Q", "R", "S", "T", "U", "V", "W", "X", "Y", "Z",
      "a", "b", "c", "d", "e", "f", "g", "h", "i", "j", "k", "l", "m",
      "n", "o", "p", "q", "r", "s", "t", "u", "v", "w", "x", "y", "z",
      "0", "1", "2", "3", "4", "5", "6", "7", "8", "9", "+", "/">>

\* base64.b64encode: three bytes give four characters, a last group of one
\* or two bytes is padded with "=".
RECURSIVE b64encode(_)
b64encode(b) ==
    IF Len(b) = 0 THEN <<>>
    ELSE IF Len(b) = 1 THEN
        LET n == b[1] * 16
        IN  <<B64[(n \div 64) + 1], B64[(n % 64) + 1], "=", "=">>
    ELSE IF Len(b) = 2 THEN
        LET n == (b[1] * 256 + b[2]) * 4
        IN  <<B64[(n \div 4096) + 1], B64[((n \div 64) % 64) + 1],
              B64[(n % 64) + 1], "=">>
    ELSE
        LET n == b[1] * 65536 + b[2] * 256 + b[3]
        IN  <<B64[(n \div 262144) + 1], B64[((n \div 4096) % 64) + 1],
              B64[((n \div 64) % 64) + 1], B64[(n % 64) + 1]>>
            \o b64encode(SubSeq(b, 4, Len(b)))

\* f"{self.auth[0]}:{self.auth[1]}".encode()
UserPass(a) == a[1] \o <<58>> \o a[2]

\* f"Basic {encoded}"
Basic(a) == <<"Basic ">> \o b64encode(UserPass(a))

\* str.lower on the Content-Type values of the model
Lower(v) == [i \in DOMAIN v |-> IF v[i] = "Application/JSON" THEN "application/json" ELSE v[i]]

\* A variant that lets the caller's Authorization header win.
_build_headersCallerWins(headers) ==
    LET with_auth == IF auth # NoAuth
                     THEN Update(default_headers, Header("Authorization", Basic(auth)))
                     ELSE default_headers
    IN  Update(with_auth, headers)

\* HttpClient._build_headers
_build_headers(headers) ==
    LET final_headers == Update(default_headers, headers)
    IN  IF auth # NoAuth
        THEN Update(final_headers, Header("Authorization", Basic(auth)))
        ELSE final_headers

\* A body is None, bytes, or a dict given by its items in order.  Bytes and
\* encoded text are sequences of pieces of text.
NoData == [kind |-> "none", raw |-> <<>>, items |-> <<>>]
RawBytes(b) == [kind |-> "bytes", raw |-> b, items |-> <<>>]
Dict(items) == [kind |-> "dict", raw |-> <<>>, items |-> items]
Item(k, v, str) == [key |-> k, value |-> v, str |-> str]

\* The data argument of a call in the model: None, bytes, {"a": 1} and
\* {"username": "testuser", "q": "x y"}.
CallData ==
    {NoData,
     RawBytes(<<"raw">>),
     Dict(<<Item("a", "1", FALSE)>>),
     Dict(<<Item("username", "testuser", TRUE), Item("q", "x y", TRUE)>>)}

\* json.dumps of one item: the key in quotes, ": ", the value (in quotes
\* when it is a string)
JsonItem(i) ==
    <<"\"", i.key, "\"", ": ">>
        \o (IF i.str THEN <<"\"", i.value, "\"">> ELSE <<i.value>>)

RECURSIVE JsonItems(_)
JsonItems(items) ==
    IF Len(items) = 0 THEN <<>>
    ELSE IF Len(items) = 1 THEN JsonItem(items[1])
    ELSE JsonItem(items[1]) \o <<", ">> \o JsonItems(Tail(items))

\* json.dumps(data).encode("utf-8")
json_dumps(items) == <<"{">> \o JsonItems(items) \o <<"}">>

\* urllib.parse.quote_plus on the texts of the model
quote_plus(text) == IF text = "x y" THEN "x+y" ELSE text

RECURSIVE UrlItems(_)
UrlItems(items) ==
    IF Len(items) = 0 THEN <<>>
    ELSE IF Len(items) = 1
         THEN <<quote_plus(items[1].key), "=", quote_plus(items[1].value)>>
    ELSE <<quote_plus(items[1].key), "=", quote_plus(items[1].value), "&">>
             \o UrlItems(Tail(items))

\* urllib.parse.urlencode(data).encode("utf-8")
urlencode(items) == UrlItems(items)

\* headers.get("Content-Type", "")
ContentType(headers) ==
    IF "Content-Type" \in DOMAIN headers THEN headers["Content-Type"] ELSE <<"">>

\* A variant that compares the Content-Type without lowering it.
SerializeCaseSensitive(data, headers) ==
    IF data.kind # "dict" THEN [data |-> data, headers |-> headers]
    ELSE IF ContentType(headers) = <<"application/json">>
         THEN [data |-> RawBytes(json_dumps(data.items)), headers |-> headers]
    ELSE IF ContentType(headers) = <<"application/x-www-form-urlencoded">>
         THEN [data |-> RawBytes(urlencode(data.items)), headers |-> headers]
    ELSE [data |-> RawBytes(json_dumps(data.items)),
          headers |-> Update(headers, Header("Content-Type", <<"application/json">>))]

\* _request: "if isinstance(data, dict): ..."
Serialize(data, headers) ==
    IF data.kind # "dict" THEN [data |-> data, headers |-> headers]
    ELSE IF Lower(ContentType(headers)) = <<"application/json">>
         THEN [data |-> RawBytes(json_dumps(data.items)), headers |-> headers]
    ELSE IF Lower(ContentType(headers)) = <<"application/x-www-form-urlencoded">>
         THEN [data |-> RawBytes(urlencode(data.items)), headers |-> headers]
    ELSE [data |-> RawBytes(json_dumps(data.items)),
          headers |-> Update(headers, Header("Content-Type", <<"application/json">>))]

\* A request as built by one call: the Request object (method, headers,
\* data), the middleware functions that have been applied to it, and what it
\* was built from: the headers passed to _build_headers, the headers that
\* came back, and the data passed to _request.
NoRequest ==
    [op |-> "none", method |-> "", passed |-> NoHeaders, built |-> NoHeaders,
     data_in |-> NoData, headers |-> NoHeaders, data |-> NoData, applied |-> <<>>]

\* The middleware functions of the model; a function leaves its name on the
\* request it is given.
Fns == {"f", "g"}
Fn(fn, req) == [req EXCEPT !.applied = Append(@, fn)]

RECURSIVE Chain(_, _)
Chain(fns, req) == IF fns = <<>> THEN req ELSE Chain(Tail(fns), Fn(Head(fns), req))

\* HttpClient._apply_middleware
_apply_middleware(req) == Chain(middleware, req)

\* The body post_multipart assembles, and the Content-Type it sets.
MultipartBody == RawBytes(<<"--boundary--">>)
MultipartType == <<"multipart/form-data; boundary=", "boundary">>

BufferedOps == {"get", "post", "put", "patch", "delete", "head", "post_multipart"}
DirectOps == {"download", "download_stream", "stream_response"}

\* What a public operation passes to _request.
Args(op, data, headers) ==
    CASE op = "get" -> [method |-> "GET", data |-> NoData, headers |-> headers]
      [] op = "delete" -> [method |-> "DELETE", data |-> NoData, headers |-> headers]
      [] op = "head" -> [method |-> "HEAD", data |-> NoData, headers |-> headers]
      [] op = "put" -> [method |-> "PUT", data |-> data, headers |-> headers]
      [] op = "patch" -> [method |-> "PATCH", data |-> data, headers |-> headers]
      [] op = "post" ->
            [method |-> "POST", data |-> data,
             headers |-> IF "Content-Type" \in DOMAIN headers THEN headers
                         ELSE Update(headers, Header("Content-Type", <<"application/json">>))]
      [] op = "post_multipart" ->
            [method |-> "POST", data |-> MultipartBody,
             headers |-> Update(_build_headers(headers),
                                Header("Content-Type", MultipartType))]

\* _request up to "req = self._apply_middleware(req)"
BuiltRequest(op, data, headers) ==
    LET a == Args(op, data, headers)
        built == _build_headers(a.headers)
        body_and_headers == Serialize(a.data, built)
    IN  _apply_middleware(
            [op |-> op, method |-> a.method, passed |-> a.headers, built |-> built,
             data_in |-> a.data, headers |-> body_and_headers.headers,
             data |-> body_and_headers.data, applied |-> <<>>])

\* download, download_stream, stream_response:
\* "urllib.request.Request(url, method="GET", headers=self._build_headers({}))"
DirectRequest(op) ==
    [op |-> op, method |-> "GET", passed |-> NoHeaders,
     built |-> _build_headers(NoHeaders), data_in |-> NoData,
     headers |-> _build_headers(NoHeaders), data |-> NoData, applied |-> <<>>]

\* HttpResponse and what its properties give
HttpResponse(s) == [status_code |-> s]
NoResponse == HttpResponse(0)
NoObservation == [seen |-> FALSE, ok |-> FALSE, is_success |-> FALSE, raised |-> FALSE]

\* The status codes of the model.
StatusCodes == (-1)..MaxStatus

\* HttpResponse.is_success
is_success(status_code) == ok(status_code)

\* HttpResponse.raise_for_status: whether it raises
raise_for_status(status_code) == ~ok(status_code)

----------------------------------------------------------------------------
InitCalls ==
    /\ _lock = NoCall
    /\ cookie_jar = [n \in Calls |-> 0]
    /\ cookie_store = [n \in Calls |-> 0]
    /\ pc = [t \in Calls |-> "idle"]
    /\ call = [t \in Calls |-> "none"]
    /\ attempt = [t \in Calls |-> 0]
    /\ exchanges = [t \in Calls |-> 0]
    /\ sleeps = [t \in Calls |-> <<>>]
    /\ outcome = [t \in Calls |-> NoOutcome]
    /\ last_exception = [t \in Calls |-> NoException]
    /\ result = [t \in Calls |-> 0]
    /\ only_retryable = [t \in Calls |-> TRUE]
    /\ chunk_size = [t \in Calls |-> 0]
    /\ body = [t \in Calls |-> <<>>]
    /\ body_left = [t \in Calls |-> 0]
    /\ chunks = [t \in Calls |-> <<>>]

\* The state of the parts that build requests and inspect responses before
\* any of them is used.
InitUnused ==
    /\ middleware = <<>>
    /\ request = NoRequest
    /\ sent = <<>>
    /\ response = NoResponse
    /\ observed = NoObservation

Init ==
    /\ max_retries \in 0..MaxRetries
    /\ backoff_factor \in BackoffFactors
    /\ cookie_file \in BOOLEAN
    /\ auth = NoAuth
    /\ default_headers = BuiltinHeaders
    /\ InitCalls
    /\ InitUnused

----------------------------------------------------------------------------
\* The buffered operations

\* _request up to "with self._lock": headers, body, request and opener are
\* built; the caller is about to take the lock.
_request(t) ==
    /\ pc[t] = "idle"
    /\ pc' = [pc EXCEPT ![t] = "acquire"]
    /\ call' = [call EXCEPT ![t] = "_request"]
    /\ UNCHANGED <<config, request_vars, response_vars, _lock, cookie_jar, cookie_store, exchanges, outcome,
                   only_retryable, retry_vars, stream_vars>>

get(t) == _request(t)
post(t) == _request(t)
put(t) == _request(t)
patch(t) == _request(t)
delete(t) == _request(t)
head(t) == _request(t)

\* post_multipart reads every file before it reaches _request; open() may
\* raise, and then no exchange is made.
post_multipart(t) ==
    \/ _request(t)
    \/ /\ pc[t] = "idle"
       /\ pc' = [pc EXCEPT ![t] = "failed"]
       /\ last_exception' = [last_exception EXCEPT ![t] = Exc("OSError", 0)]
       /\ UNCHANGED <<config, request_vars, response_vars, _lock, cookie_jar, cookie_store, call, exchanges,
                      outcome, only_retryable, attempt, sleeps, result,
                      stream_vars>>

\* download up to "with self._lock"
download(t) ==
    /\ pc[t] = "idle"
    /\ pc' = [pc EXCEPT ![t] = "acquire"]
    /\ call' = [call EXCEPT ![t] = "download"]
    /\ UNCHANGED <<config, request_vars, response_vars, _lock, cookie_jar, cookie_store, exchanges, outcome,
                   only_retryable, retry_vars, stream_vars>>

\* A variant that does not wait for the lock.
AcquireNoWait(t) ==
    /\ pc[t] = "acquire"
    /\ _lock' = t
    /\ pc' = [pc EXCEPT ![t] = "retry"]
    /\ attempt' = [attempt EXCEPT ![t] = 0]
    /\ last_exception' = [last_exception EXCEPT ![t] = NoException]
    /\ UNCHANGED <<config, request_vars, response_vars, cookie_jar, cookie_store, call, exchanges, outcome,
                   only_retryable, sleeps, result, stream_vars>>

\* "with self._lock:" blocks until the lock is free, then _retry_request
\* starts with last_exception = None.
Acquire(t) ==
    /\ pc[t] = "acquire"
    /\ _lock = NoCall
    /\ _lock' = t
    /\ pc' = [pc EXCEPT ![t] = "retry"]
    /\ attempt' = [attempt EXCEPT ![t] = 0]
    /\ last_exception' = [last_exception EXCEPT ![t] = NoException]
    /\ UNCHANGED <<config, request_vars, response_vars, cookie_jar, cookie_store, call, exchanges, outcome,
                   only_retryable, sleeps, result, stream_vars>>

\* A variant whose range is one too long.
NextAttemptOffByOne(t) ==
    /\ pc[t] = "retry"
    /\ attempt[t] <= max_retries
    /\ attempt' = [attempt EXCEPT ![t] = @ + 1]
    /\ exchanges' = [exchanges EXCEPT ![t] = @ + 1]
    /\ pc' = [pc EXCEPT ![t] = "exchange"]
    /\ UNCHANGED <<config, request_vars, response_vars, _lock, cookie_jar, cookie_store, call, outcome,
                   only_retryable, sleeps, last_exception, result, stream_vars>>

\* "for attempt in range(1, self.max_retries + 1)": the next attempt calls
\* func, which opens one transport exchange.
NextAttempt(t) ==
    /\ pc[t] = "retry"
    /\ attempt[t] < max_retries
    /\ attempt' = [attempt EXCEPT ![t] = @ + 1]
    /\ exchanges' = [exchanges EXCEPT ![t] = @ + 1]
    /\ pc' = [pc EXCEPT ![t] = "exchange"]
    /\ UNCHANGED <<config, request_vars, response_vars, _lock, cookie_jar, cookie_store, call, outcome,
                   only_retryable, sleeps, last_exception, result, stream_vars>>

\* A variant that raises without releasing the lock.
ExhaustedKeepLock(t) ==
    /\ pc[t] = "retry"
    /\ attempt[t] >= max_retries
    /\ pc' = [pc EXCEPT ![t] = "failed"]
    /\ UNCHANGED <<config, request_vars, response_vars, _lock, cookie_jar, cookie_store, call, exchanges,
                   outcome, only_retryable, retry_vars, stream_vars>>

\* The loop is exhausted: "raise last_exception" leaves the with block.
Exhausted(t) ==
    /\ pc[t] = "retry"
    /\ attempt[t] >= max_retries
    /\ _lock' = NoCall
    /\ pc' = [pc EXCEPT ![t] = "failed"]
    /\ UNCHANGED <<config, request_vars, response_vars, cookie_jar, cookie_store, call, exchanges, outcome,
                   only_retryable, retry_vars, stream_vars>>

\* opener.open in do_open / do_download: the exchange ends.  A response, of
\* any status, passes HTTPCookieProcessor and updates the jar.
Exchange(t, o) ==
    /\ pc[t] = "exchange"
    /\ o \in Outcomes(call[t])
    /\ outcome' = [outcome EXCEPT ![t] = o]
    /\ cookie_jar' = IF o.kind = "fault" THEN cookie_jar
                     ELSE SetCookie(cookie_jar, t, exchanges[t])
    /\ only_retryable' = [only_retryable EXCEPT ![t] =
                            @ /\ o.kind = "response" /\ o.status \in RETRY_STATUSES]
    /\ pc' = [pc EXCEPT ![t] = "returned"]
    /\ UNCHANGED <<config, request_vars, response_vars, _lock, cookie_store, call, exchanges, retry_vars,
                   stream_vars>>

\* A variant that backs off once more before it returns the result.
ReturnAfterSleep(t, status) ==
    /\ result' = [result EXCEPT ![t] = status]
    /\ sleeps' = [sleeps EXCEPT ![t] = Append(@, backoff_factor * Pow2(attempt[t] - 1))]
    /\ _lock' = NoCall
    /\ pc' = [pc EXCEPT ![t] = IF call[t] = "_request" THEN "persist" ELSE "done"]
    /\ UNCHANGED <<attempt, last_exception>>

\* A variant that returns the result without releasing the lock.
ReturnKeepLock(t, status) ==
    /\ result' = [result EXCEPT ![t] = status]
    /\ pc' = [pc EXCEPT ![t] = IF call[t] = "_request" THEN "persist" ELSE "done"]
    /\ UNCHANGED <<_lock, attempt, sleeps, last_exception>>

\* _retry_request: "return result" inside the with block of _request / download
Return(t, status) ==
    /\ result' = [result EXCEPT ![t] = status]
    /\ _lock' = NoCall
    /\ pc' = [pc EXCEPT ![t] = IF call[t] = "_request" THEN "persist" ELSE "done"]
    /\ UNCHANGED <<attempt, sleeps, last_exception>>

\* _retry_request: an except clause records the exception and sleeps
Retry(t, e) ==
    /\ last_exception' = [last_exception EXCEPT ![t] = e]
    /\ sleeps' = [sleeps EXCEPT ![t] = Append(@, Backoff(attempt[t]))]
    /\ pc' = [pc EXCEPT ![t] = "sleep"]
    /\ UNCHANGED <<_lock, attempt, result>>

\* _retry_request: "raise e" for an HTTPError outside the retryable set
Raise(t, e) ==
    /\ last_exception' = [last_exception EXCEPT ![t] = e]
    /\ _lock' = NoCall
    /\ pc' = [pc EXCEPT ![t] = "failed"]
    /\ UNCHANGED <<attempt, sleeps, result>>

\* A variant in which a decoding fault is raised to the caller at once.
AfterDoOpenDecodeFatal(t) ==
    LET o == outcome[t] IN
    IF o.kind = "fault" THEN Retry(t, Exc("URLError", 0))
    ELSE IF o.kind = "malformed" THEN Raise(t, Exc("DecodeError", 0))
    ELSE IF IsRetryStatus(o.status, attempt[t])
         THEN Retry(t, Exc("Exception", o.status))
         ELSE Return(t, o.status)

\* do_open catches HTTPError and wraps every response in an HttpResponse;
\* _decompress raises on a malformed body; a transport fault propagates.
\* _retry_request turns a retryable status into an Exception.
AfterDoOpen(t) ==
    LET o == outcome[t] IN
    IF o.kind = "fault" THEN Retry(t, Exc("URLError", 0))
    ELSE IF o.kind = "malformed" THEN Retry(t, Exc("DecodeError", 0))
    ELSE IF IsRetryStatus(o.status, attempt[t])
         THEN Retry(t, Exc("Exception", o.status))
         ELSE Return(t, o.status)

\* do_download lets HTTPError through to _retry_request's first except clause.
AfterDoDownload(t) ==
    LET o == outcome[t] IN
    IF o.kind = "fault" THEN Retry(t, Exc("URLError", 0))
    ELSE IF ~IsHTTPError(o.status) THEN Return(t, 0)
    ELSE IF ~IsRetryStatus(o.status, attempt[t])
         THEN Raise(t, Exc("HTTPError", o.status))
         ELSE Retry(t, Exc("HTTPError", o.status))

\* _retry_request: the body of one iteration after func returned or raised
_retry_request(t) ==
    /\ pc[t] = "returned"
    /\ IF call[t] = "_request" THEN AfterDoOpen(t) ELSE AfterDoDownload(t)
    /\ UNCHANGED <<config, request_vars, response_vars, cookie_jar, cookie_store, call, exchanges, outcome,
                   only_retryable, stream_vars>>

\* time.sleep returns; the loop goes on.
Wake(t) ==
    /\ pc[t] = "sleep"
    /\ pc' = [pc EXCEPT ![t] = "retry"]
    /\ UNCHANGED <<config, request_vars, response_vars, _lock, cookie_jar, cookie_store, call, exchanges,
                   outcome, only_retryable, retry_vars, stream_vars>>

\* _request after the with block: "if self.cookie_file:" starts the save
Persist(t) ==
    /\ pc[t] = "persist"
    /\ pc' = [pc EXCEPT ![t] = IF cookie_file THEN "saving" ELSE "done"]
    /\ UNCHANGED <<config, request_vars, response_vars, _lock, cookie_jar, cookie_store, call, exchanges,
                   outcome, only_retryable, retry_vars, stream_vars>>

\* cookie_jar.save writes the jar to the file; _request returns result
save(t) ==
    /\ pc[t] = "saving"
    /\ cookie_store' = cookie_jar
    /\ pc' = [pc EXCEPT ![t] = "done"]
    /\ UNCHANGED <<config, request_vars, response_vars, _lock, cookie_jar, call, exchanges, outcome,
                   only_retryable, retry_vars, stream_vars>>

----------------------------------------------------------------------------
\* The streaming operations

\* A variant that opens the exchange only while the client lock is free.
StreamStartLocked(t, name, c) ==
    /\ pc[t] = "idle"
    /\ _lock = NoCall
    /\ call' = [call EXCEPT ![t] = name]
    /\ chunk_size' = [chunk_size EXCEPT ![t] = c]
    /\ exchanges' = [exchanges EXCEPT ![t] = @ + 1]
    /\ pc' = [pc EXCEPT ![t] = "opening"]
    /\ UNCHANGED <<config, request_vars, response_vars, _lock, cookie_jar, cookie_store, outcome,
                   only_retryable, retry_vars, body, body_left, chunks>>

\* The request and the opener are built and opener.open is called: one
\* exchange is opened, without the lock.
StreamStart(t, name, c) ==
    /\ pc[t] = "idle"
    /\ call' = [call EXCEPT ![t] = name]
    /\ chunk_size' = [chunk_size EXCEPT ![t] = c]
    /\ exchanges' = [exchanges EXCEPT ![t] = @ + 1]
    /\ pc' = [pc EXCEPT ![t] = "opening"]
    /\ UNCHANGED <<config, request_vars, response_vars, _lock, cookie_jar, cookie_store, outcome,
                   only_retryable, retry_vars, body, body_left, chunks>>

download_stream(t, c) == StreamStart(t, "download_stream", c)
stream_response(t, c) == StreamStart(t, "stream_response", c)

\* A variant that backs off and opens the exchange again after a fault.
StreamFaultRetry(t, e) ==
    /\ last_exception' = [last_exception EXCEPT ![t] = e]
    /\ IF exchanges[t] < max_retries
       THEN /\ sleeps' = [sleeps EXCEPT ![t] = Append(@, backoff_factor)]
            /\ exchanges' = [exchanges EXCEPT ![t] = @ + 1]
            /\ pc' = [pc EXCEPT ![t] = "opening"]
       ELSE /\ pc' = [pc EXCEPT ![t] = "failed"]
            /\ UNCHANGED <<exchanges, sleeps>>
    /\ UNCHANGED <<attempt, result>>

\* A fault of opener.open or of response.read leaves the function at once.
StreamFault(t, e) ==
    /\ last_exception' = [last_exception EXCEPT ![t] = e]
    /\ pc' = [pc EXCEPT ![t] = "failed"]
    /\ UNCHANGED <<exchanges, attempt, sleeps, result>>

\* opener.open returns the response, or raises (HTTPError for a status
\* outside 2xx).  n is the length of the body the server sends.
StreamOpen(t, o, n) ==
    /\ pc[t] = "opening"
    /\ o \in Outcomes(call[t])
    /\ outcome' = [outcome EXCEPT ![t] = o]
    /\ cookie_jar' = IF o.kind = "fault" THEN cookie_jar
                     ELSE SetCookie(cookie_jar, t, exchanges[t])
    /\ only_retryable' = [only_retryable EXCEPT ![t] =
                            @ /\ o.kind = "response" /\ o.status \in RETRY_STATUSES]
    /\ IF o.kind = "fault"
       THEN StreamFault(t, Exc("URLError", 0)) /\ UNCHANGED <<body, body_left>>
       ELSE IF IsHTTPError(o.status)
       THEN StreamFault(t, Exc("HTTPError", o.status)) /\ UNCHANGED <<body, body_left>>
       ELSE /\ body' = [body EXCEPT ![t] = Bytes(n)]
            /\ body_left' = [body_left EXCEPT ![t] = n]
            /\ pc' = [pc EXCEPT ![t] = "reading"]
            /\ UNCHANGED <<exchanges, retry_vars>>
    /\ UNCHANGED <<config, request_vars, response_vars, _lock, cookie_store, call, chunk_size, chunks>>

\* response.read(chunk_size): the next bytes of the body, at most chunk_size
\* of them, none at the end of the body
read(t) ==
    LET pos == Len(body[t]) - body_left[t] IN
    SubSeq(body[t], pos + 1, pos + Min(chunk_size[t], body_left[t]))

\* A variant that stops at a chunk shorter than chunk_size without yielding it.
StreamReadDropShort(t) ==
    /\ pc[t] = "reading"
    /\ body_left[t] > 0
    /\ LET chunk == read(t) IN
         /\ chunks' = [chunks EXCEPT ![t] =
                          IF Len(chunk) < chunk_size[t] THEN @ ELSE Append(@, chunk)]
         /\ body_left' = [body_left EXCEPT ![t] = @ - Len(chunk)]
    /\ UNCHANGED <<config, request_vars, response_vars, _lock, cookie_jar, cookie_store, pc, call, exchanges,
                   outcome, only_retryable, retry_vars, chunk_size, body>>

\* "chunk = response.read(chunk_size)" with a non-empty chunk, which is
\* yielded (stream_response) or written (download_stream)
StreamRead(t) ==
    /\ pc[t] = "reading"
    /\ body_left[t] > 0
    /\ LET chunk == read(t) IN
         /\ chunks' = [chunks EXCEPT ![t] = Append(@, chunk)]
         /\ body_left' = [body_left EXCEPT ![t] = @ - Len(chunk)]
    /\ UNCHANGED <<config, request_vars, response_vars, _lock, cookie_jar, cookie_store, pc, call, exchanges,
                   outcome, only_retryable, retry_vars, chunk_size, body>>

\* "if not chunk: break": the with block closes the exchange
StreamEnd(t) ==
    /\ pc[t] = "reading"
    /\ body_left[t] = 0
    /\ pc' = [pc EXCEPT ![t] = "done"]
    /\ UNCHANGED <<config, request_vars, response_vars, _lock, cookie_jar, cookie_store, call, exchanges,
                   outcome, only_retryable, retry_vars, stream_vars>>

\* response.read raises mid-stream (the connection drops)
StreamBroken(t) ==
    /\ pc[t] = "reading"
    /\ outcome' = [outcome EXCEPT ![t] = Fault]
    /\ StreamFault(t, Exc("URLError", 0))
    /\ UNCHANGED <<config, request_vars, response_vars, _lock, cookie_jar, cookie_store, call,
                   only_retryable, stream_vars>>

----------------------------------------------------------------------------
Next ==
    \E t \in Calls :
        \/ get(t)
        \/ post(t)
        \/ put(t)
        \/ patch(t)
        \/ delete(t)
        \/ head(t)
        \/ post_multipart(t)
        \/ download(t)
        \/ Acquire(t)
        \/ NextAttempt(t)
        \/ Exhausted(t)
        \/ \E o \in Outcomes(call[t]) : Exchange(t, o)
        \/ _retry_request(t)
        \/ Wake(t)
        \/ Persist(t)
        \/ save(t)
        \/ \E c \in ChunkSizes : download_stream(t, c)
        \/ \E c \in ChunkSizes : stream_response(t, c)
        \/ \E o \in Outcomes(call[t]), n \in 0..MaxBody : StreamOpen(t, o, n)
        \/ StreamRead(t)
        \/ StreamEnd(t)
        \/ StreamBroken(t)

Spec == Init /\ [][Next]_vars

\* One streaming caller and bodies of up to MaxStreamBody bytes read in
\* chunks of up to MaxStreamChunk bytes.
InitStream == Init /\ backoff_factor = 1 /\ ~cookie_file /\ max_retries = MaxRetries

NextStream ==
    \E t \in {"c1"} :
        \/ \E c \in 1..MaxStreamChunk : download_stream(t, c)
        \/ \E c \in 1..MaxStreamChunk : stream_response(t, c)
        \/ \E o \in Outcomes(call[t]), n \in 0..MaxStreamBody : StreamOpen(t, o, n)
        \/ StreamRead(t)
        \/ StreamEnd(t)
        \/ StreamBroken(t)

SpecStream == InitStream /\ [][NextStream]_vars

\* One step of caller t's call once it has been made.  The interpreter runs
\* every thread again and again, a sleep ends, and the transport ends every
\* exchange and every read (by its timeout at the latest).
Step(t) ==
    \/ Acquire(t)
    \/ NextAttempt(t)
    \/ Exhausted(t)
    \/ \E o \in Outcomes(call[t]) : Exchange(t, o)
    \/ _retry_request(t)
    \/ Wake(t)
    \/ Persist(t)
    \/ save(t)
    \/ \E o \in Outcomes(call[t]), n \in 0..MaxBody : StreamOpen(t, o, n)
    \/ StreamRead(t)
    \/ StreamEnd(t)
    \/ StreamBroken(t)

\* The client and the calls the fairness claims are checked on: a client with
\* a cookie file and max_retries >= 1, and bodies of at most one byte.
InitLive == Init /\ backoff_factor = 1 /\ cookie_file /\ max_retries >= 1

LiveBodies == {0, 1}

NextLive ==
    \E t \in Calls :
        \/ get(t)
        \/ post(t)
        \/ put(t)
        \/ patch(t)
        \/ delete(t)
        \/ head(t)
        \/ post_multipart(t)
        \/ download(t)
        \/ Acquire(t)
        \/ NextAttempt(t)
        \/ Exhausted(t)
        \/ \E o \in Outcomes(call[t]) : Exchange(t, o)
        \/ _retry_request(t)
        \/ Wake(t)
        \/ Persist(t)
        \/ save(t)
        \/ \E c \in ChunkSizes : download_stream(t, c)
        \/ \E c \in ChunkSizes : stream_response(t, c)
        \/ \E o \in Outcomes(call[t]), n \in LiveBodies : StreamOpen(t, o, n)
        \/ StreamRead(t)
        \/ StreamEnd(t)
        \/ StreamBroken(t)

FairSpec == InitLive /\ [][NextLive]_vars /\ \A t \in Calls : WF_vars(Step(t))

----------------------------------------------------------------------------
\* Building and dispatching requests

call_vars == <<_lock, cookie_jar, cookie_store, pc, call, attempt, exchanges,
               sleeps, outcome, last_exception, result, only_retryable,
               chunk_size, body, body_left, chunks>>

\* add_middleware, between two calls
add_middleware(fn) ==
    /\ request = NoRequest
    /\ Len(middleware) < MaxMiddleware
    /\ middleware' = Append(middleware, fn)
    /\ UNCHANGED <<config, call_vars, request, sent, response_vars>>

\* A buffered operation builds its request.
MakeRequest(op, data, headers) ==
    /\ request = NoRequest
    /\ request' = BuiltRequest(op, data, headers)
    /\ UNCHANGED <<config, call_vars, middleware, sent, response_vars>>

\* download, download_stream or stream_response is called.
MakeDirect(op) ==
    /\ request = NoRequest
    /\ request' = DirectRequest(op)
    /\ UNCHANGED <<config, call_vars, middleware, sent, response_vars>>

\* opener.open(req): once per attempt of _retry_request, once in a streaming
\* operation.  do_download builds its request anew in every attempt.
opener_open ==
    /\ request # NoRequest
    /\ Len(sent) < (IF request.op \in {"download_stream", "stream_response"}
                    THEN 1 ELSE max_retries)
    /\ sent' = Append(sent, IF request.op = "download"
                            THEN DirectRequest("download") ELSE request)
    /\ UNCHANGED <<config, call_vars, middleware, request, response_vars>>

\* The call is over.
CallOver ==
    /\ sent # <<>>
    /\ request' = NoRequest
    /\ sent' = <<>>
    /\ UNCHANGED <<config, call_vars, middleware, response_vars>>

InitRequest ==
    /\ max_retries = MaxRetries
    /\ backoff_factor = 1
    /\ cookie_file = FALSE
    /\ auth \in Auths
    /\ default_headers \in DefaultHeaders
    /\ InitCalls
    /\ InitUnused

NextRequest ==
    \/ \E fn \in Fns : add_middleware(fn)
    \/ \E op \in BufferedOps, data \in CallData, headers \in CallHeaders :
          MakeRequest(op, data, headers)
    \/ \E op \in DirectOps : MakeDirect(op)
    \/ opener_open
    \/ CallOver

SpecRequest == InitRequest /\ [][NextRequest]_vars

----------------------------------------------------------------------------
\* Inspecting responses

\* An HttpResponse with status code s is constructed.
Receive(s) ==
    /\ response' = HttpResponse(s)
    /\ observed' = NoObservation
    /\ UNCHANGED <<config, call_vars, request_vars>>

\* The caller reads ok and is_success and calls raise_for_status.
Inspect ==
    /\ ~observed.seen
    /\ observed' = [seen |-> TRUE,
                    ok |-> ok(response.status_code),
                    is_success |-> is_success(response.status_code),
                    raised |-> raise_for_status(response.status_code)]
    /\ UNCHANGED <<config, call_vars, request_vars, response>>

InitResponse ==
    /\ max_retries = MaxRetries
    /\ backoff_factor = 1
    /\ cookie_file = FALSE
    /\ auth = NoAuth
    /\ default_headers = BuiltinHeaders
    /\ InitCalls
    /\ middleware = <<>>
    /\ request = NoRequest
    /\ sent = <<>>
    /\ response \in {HttpResponse(s) : s \in StatusCodes}
    /\ observed = NoObservation

NextResponse ==
    \/ \E s \in StatusCodes : Receive(s)
    \/ Inspect

SpecResponse == InitResponse /\ [][NextResponse]_vars

----------------------------------------------------------------------------
\* Predicates over one caller's logical call

\* The retry controller returned a result to _request / download.
Returned(t) == LockTaking(t) /\ pc[t] \in {"persist", "saving", "done"}

\* The call has a transport exchange open.
ExchangeOpen(t) == pc[t] \in {"exchange", "opening", "reading"}

\* The latest exchange ended with an error status outside the retryable set.
NonRetryableError(t) ==
    /\ outcome[t].kind = "response"
    /\ ~ok(outcome[t].status)
    /\ outcome[t].status \notin RETRY_STATUSES

----------------------------------------------------------------------------
\* C1: with max_retries = N >= 1, a call through _retry_request whose every
\* attempt reports a retryable status never makes more than N attempts, never
\* returns a result, and has made exactly N attempts when it has failed.
C1_ExactlyMaxRetriesAttempts ==
    \A t \in Calls :
        (LockTaking(t) /\ max_retries >= 1 /\ only_retryable[t]) =>
            /\ exchanges[t] <= max_retries
            /\ ~Returned(t)
            /\ (pc[t] = "failed" => exchanges[t] = max_retries)

C1_Witness ==
    \E t \in Calls :
        /\ LockTaking(t) /\ only_retryable[t]
        /\ max_retries = 3 /\ pc[t] = "failed" /\ exchanges[t] = 3
        /\ last_exception[t].code = 503

\* C2: a backoff sleep occurs only between attempts: a call sleeps after
\* failed attempt n only when n < max_retries, for backoff_factor * 2^(n-1)
\* seconds, and a call that failed after N attempts has slept N - 1 times.
C2_SleepOnlyBetweenAttempts ==
    \A t \in Calls :
        LockTaking(t) =>
            /\ (pc[t] = "sleep" =>
                   /\ attempt[t] < max_retries
                   /\ sleeps[t][Len(sleeps[t])] = backoff_factor * Pow2(attempt[t] - 1))
            /\ ((pc[t] = "failed" /\ exchanges[t] >= 1 /\ exchanges[t] = max_retries
                    /\ ~NonRetryableError(t)) =>
                   Len(sleeps[t]) = exchanges[t] - 1)

C4_BackoffDoesNotBlockOthers ==
    \A t, u \in Calls :
        (t # u /\ pc[t] = "sleep" /\ pc[u] = "acquire" /\ _lock \in {NoCall, t}) =>
            ENABLED Acquire(u)

\* C5 as stated: at most one call of any public operation, the streaming
\* ones included, has a transport exchange open.
C5_AllExchangesSerialized ==
    \A t, u \in Calls : (t # u) => ~(ExchangeOpen(t) /\ ExchangeOpen(u))

\* C5, amended: at most one call of a lock-taking operation (get, post, put,
\* patch, delete, head, post_multipart, download) has a transport exchange
\* open, and it is the call that holds the lock.
C5_LockedExchangesSerialized ==
    \A t, u \in Calls :
        (t # u /\ LockTaking(t) /\ LockTaking(u)) =>
            ~(ExchangeOpen(t) /\ ExchangeOpen(u))

C5_Witness ==
    \E t, u \in Calls :
        /\ t # u /\ LockTaking(t) /\ LockTaking(u)
        /\ ExchangeOpen(t) /\ pc[u] = "acquire"

\* C6: the exchanges of lock-taking calls, in which the jar is read and
\* written, run under the lock, so they never interleave; and when two such
\* calls have both returned, the jar holds both cookies with the values their
\* last exchanges set.
C6_CookieWritesSerialized ==
    /\ \A t \in Calls : (LockTaking(t) /\ pc[t] \in {"exchange", "returned"}) => _lock = t
    /\ \A t, u \in Calls :
          (t # u /\ Returned(t) /\ Returned(u)) =>
              /\ cookie_jar[t] = exchanges[t]
              /\ cookie_jar[u] = exchanges[u]

C6_Witness ==
    \E t, u \in Calls :
        /\ t # u /\ Returned(t) /\ Returned(u)
        /\ pc[t] = "done" /\ pc[u] = "done"
        /\ cookie_jar[t] = 1 /\ cookie_jar[u] = 2

\* C7: while one call writes the cookie file, no other call that takes the
\* lock is inside an exchange and no other call writes the cookie file.
C7_PersistenceNeverRaces ==
    \A t, u \in Calls :
        (t # u /\ pc[t] = "saving") =>
            /\ pc[u] # "saving"
            /\ ~(LockTaking(u) /\ pc[u] = "exchange")

\* C8: a streaming call opens exactly one exchange, never sleeps and never
\* enters the retry loop, whatever max_retries is; a fault at opening or in a
\* mid-stream read ends the call at once with that fault.
C8_StreamingBypassesRetry ==
    \A t \in Calls :
        Streaming(t) =>
            /\ exchanges[t] = 1
            /\ sleeps[t] = <<>>
            /\ attempt[t] = 0
            /\ (outcome[t].kind = "fault" =>
                   pc[t] = "failed" /\ last_exception[t].type = "URLError")

C8_Witness ==
    \E t \in Calls :
        /\ Streaming(t) /\ max_retries = 3
        /\ pc[t] = "failed" /\ outcome[t].kind = "fault"
        /\ Len(chunks[t]) >= 1 /\ body_left[t] > 0

\* C9: no buffered request operation returns a Response whose status is in
\* the retryable set, on any attempt, the last one included.
C9_NoRetryableStatusReturned ==
    \A t \in Calls :
        (call[t] = "_request" /\ pc[t] \in {"persist", "saving", "done"}) =>
            /\ result[t] \in Statuses
            /\ result[t] \notin RETRY_STATUSES

C9_Witness ==
    \E t \in Calls :
        /\ call[t] = "_request" /\ pc[t] = "done"
        /\ attempt[t] = max_retries /\ max_retries >= 2
        /\ last_exception[t] = Exc("Exception", 503)
        /\ result[t] = 404

\* C10: for every operation under the retry controller, download included,
\* an exchange that ends with an error status outside the retryable set is
\* not a fault: the call completes normally, with no further attempt.
C10_NonRetryableErrorIsNotAFault ==
    \A t \in Calls :
        (LockTaking(t) /\ NonRetryableError(t)) =>
            pc[t] \in {"returned", "persist", "saving", "done"}

\* C11: with a cookie file configured, after any call of any public
\* operation has ended having completed an exchange that set its cookie, the
\* file holds that cookie as the jar does.
C11_SavedAfterEveryExchange ==
    \A t \in Calls :
        (cookie_file /\ pc[t] \in {"done", "failed"} /\ cookie_jar[t] # 0) =>
            cookie_store[t] = cookie_jar[t]

\* C13: a decoding fault in a buffered request is a retryable failure: it
\* never yields a result, it is recorded as the last exception and followed
\* by a backoff and, while attempts remain, by the next attempt; the call
\* fails with it only when it happened on attempt max_retries.
C13_DecodeFaultIsRetried ==
    \A t \in Calls :
        (call[t] = "_request" /\ outcome[t].kind = "malformed") =>
            /\ pc[t] \in {"returned", "sleep", "retry", "exchange", "failed"}
            /\ result[t] = 0
            /\ (pc[t] \in {"sleep", "retry", "exchange", "failed"} =>
                   last_exception[t] = Exc("DecodeError", 0))
            /\ (pc[t] = "exchange" => attempt[t] = exchanges[t] /\ attempt[t] >= 2)
            /\ (pc[t] = "failed" => attempt[t] = max_retries)

C13_Witness ==
    \E t \in Calls :
        /\ call[t] = "_request" /\ outcome[t].kind = "malformed"
        /\ pc[t] = "exchange" /\ attempt[t] = 2 /\ max_retries = 3
        /\ Len(sleeps[t]) = 1

\* C14: a streaming call never holds or waits for the client lock: while
\* another call holds the lock, a caller can start a streaming call, and a
\* streaming call can open its exchange and read its chunks.
C14_StreamingNeverWaitsForLock ==
    \A t \in Calls :
        /\ Streaming(t) => _lock # t
        /\ (_lock \in Calls \ {t}) =>
              /\ (pc[t] = "idle" =>
                     /\ ENABLED (\E c \in ChunkSizes : stream_response(t, c))
                     /\ ENABLED (\E c \in ChunkSizes : download_stream(t, c)))
              /\ ((Streaming(t) /\ pc[t] = "opening") =>
                     ENABLED (\E o \in Outcomes(call[t]), n \in 0..MaxBody :
                                 StreamOpen(t, o, n)))
              /\ ((Streaming(t) /\ pc[t] = "reading") =>
                     ENABLED (StreamRead(t) \/ StreamEnd(t)))

C14_Witness ==
    \E t, u \in Calls :
        /\ Streaming(t) /\ pc[t] = "reading" /\ Len(chunks[t]) >= 1
        /\ pc[u] = "sleep" /\ _lock = u

\* C19: a call holds the client lock exactly while it is inside the retry
\* loop; once a buffered request or download has ended, by a result, by
\* exhausted retries or by a non-retryable HTTPError, it no longer holds the
\* lock, and the lock is free whenever no call is in progress.
C19_LockReleasedOnEveryExit ==
    /\ \A t \in Calls :
          (_lock = t) <=> (pc[t] \in {"retry", "exchange", "returned", "sleep"})
    /\ (\A t \in Calls : pc[t] \in {"idle", "done", "failed"}) => _lock = NoCall

C19_Witness ==
    \E t, u \in Calls :
        /\ t # u /\ call[t] = "download" /\ pc[t] = "failed"
        /\ last_exception[t] = Exc("HTTPError", 404)
        /\ call[u] = "_request" /\ pc[u] = "failed" /\ exchanges[u] = max_retries
        /\ max_retries >= 1 /\ _lock = NoCall

\* The call has ended: it returned to its caller or raised.
Terminated(t) == pc[t] \in {"done", "failed"}

\* C20: under fair scheduling every call that was made ends, returned or
\* failed; every call waiting for the client lock gets it; and with
\* max_retries >= 1 a call through the retry controller has ended after at
\* least 1 and at most max_retries attempts.
C20_EveryCallTerminates ==
    /\ \A t \in Calls : (pc[t] # "idle") ~> Terminated(t)
    /\ \A t \in Calls : (pc[t] = "acquire") ~> (_lock = t)
    /\ [](\A t \in Calls :
            (LockTaking(t) /\ Terminated(t) /\ max_retries >= 1) =>
                (exchanges[t] >= 1 /\ exchanges[t] <= max_retries))

C20_Witness ==
    \E t, u \in Calls :
        /\ t # u /\ max_retries = 3
        /\ LockTaking(t) /\ pc[t] = "failed" /\ exchanges[t] = 3
        /\ LockTaking(u) /\ pc[u] = "done" /\ exchanges[u] = 1

RECURSIVE Concat(_)
Concat(seqs) == IF seqs = <<>> THEN <<>> ELSE Head(seqs) \o Concat(Tail(seqs))

CeilDiv(n, c) == (n + c - 1) \div c

\* C12: stream_response over a body of N bytes with chunk_size c yields only
\* non-empty chunks of at most c bytes, which together are the part of the
\* body read so far, in order; when it has ended it has yielded exactly
\* ceil(N/c) chunks whose concatenation is the body (none for N = 0).
C12_ChunksCoverTheBody ==
    \A t \in Calls :
        (call[t] = "stream_response" /\ pc[t] \in {"reading", "done"}) =>
            /\ \A i \in 1..Len(chunks[t]) :
                  Len(chunks[t][i]) >= 1 /\ Len(chunks[t][i]) <= chunk_size[t]
            /\ Concat(chunks[t]) = SubSeq(body[t], 1, Len(body[t]) - body_left[t])
            /\ (pc[t] = "done" =>
                   /\ Len(chunks[t]) = CeilDiv(Len(body[t]), chunk_size[t])
                   /\ Concat(chunks[t]) = body[t]
                   /\ (body[t] = <<>> => chunks[t] = <<>>))

C12_Witness ==
    \E t \in Calls :
        /\ call[t] = "stream_response" /\ pc[t] = "done"
        /\ Len(body[t]) = 8 /\ chunk_size[t] = 3
        /\ chunks[t] = <<<<1, 2, 3>>, <<4, 5, 6>>, <<7, 8>>>>

\* C15: for every response, ok is true exactly when 200 <= status_code < 300
\* (199 false, 200 true, 299 true, 300 false), is_success equals ok, and
\* raise_for_status raises exactly when ok is false.
C15_OkIsThe2xxRange ==
    observed.seen =>
        /\ observed.ok = (response.status_code \in 200..299)
        /\ (response.status_code \in {199, 300} => ~observed.ok)
        /\ (response.status_code \in {200, 299} => observed.ok)
        /\ observed.is_success = observed.ok
        /\ observed.raised = ~observed.ok

C15_Witness ==
    /\ observed.seen
    /\ response.status_code = 300
    /\ ~observed.ok /\ ~observed.is_success /\ observed.raised

\* base64 decoding, the inverse the receiving server applies
B64Index(ch) == IF ch = "=" THEN 0 ELSE (CHOOSE i \in 0..63 : B64[i + 1] = ch)
Pad(q) == Cardinality({i \in 1..4 : q[i] = "="})

RECURSIVE b64decode(_)
b64decode(c) ==
    IF Len(c) = 0 THEN <<>>
    ELSE LET q == SubSeq(c, 1, 4)
             n == B64Index(q[1]) * 262144 + B64Index(q[2]) * 4096
                    + B64Index(q[3]) * 64 + B64Index(q[4])
             three == <<n \div 65536, (n \div 256) % 256, n % 256>>
         IN  SubSeq(three, 1, 3 - Pad(q)) \o b64decode(SubSeq(c, 5, Len(c)))

\* base64 of "postman:password"
PostmanPassword64 ==
    <<"c", "G", "9", "z", "d", "G", "1", "h", "b", "j", "p", "w",
      "Y", "X", "N", "z", "d", "2", "9", "y", "Z", "A", "=", "=">>

\* C16: on a client with credentials (user, pass) the headers _build_headers
\* produces for any caller-supplied headers have Authorization = "Basic " +
\* base64(user:pass), whatever Authorization the caller supplied; every other
\* per-call header overrides the client default of the same key (default
\* Accept "*/*" with per-call Accept "application/json" gives
\* "application/json").
C16_AuthorizationAndOverrides ==
    request # NoRequest =>
        LET h == request.passed
            b == request.built
        IN  /\ auth # NoAuth =>
                  /\ "Authorization" \in DOMAIN b
                  /\ Head(b["Authorization"]) = "Basic "
                  /\ b64decode(Tail(b["Authorization"])) = auth[1] \o <<58>> \o auth[2]
            /\ auth = <<Postman, Password>> =>
                  b["Authorization"] = <<"Basic ">> \o PostmanPassword64
            /\ \A k \in DOMAIN h :
                  (k # "Authorization" \/ auth = NoAuth) => b[k] = h[k]
            /\ \A k \in DOMAIN default_headers \ DOMAIN h :
                  (k # "Authorization" \/ auth = NoAuth) => b[k] = default_headers[k]
            /\ (default_headers["Accept"] = <<"*/*">>
                  /\ h = Header("Accept", <<"application/json">>))
                  => b["Accept"] = <<"application/json">>

C16_Witness ==
    /\ auth = <<Postman, Password>>
    /\ request.op = "get"
    /\ request.passed = Header("Authorization", <<"Bearer ", "token">>)
    /\ request.built["Authorization"] = <<"Basic ">> \o PostmanPassword64

\* C17: in _request a bytes body is passed through unchanged and its headers
\* are not altered; a dict body is JSON-encoded when Content-Type is
\* application/json, URL-encoded when it is
\* application/x-www-form-urlencoded, and for any other or missing
\* Content-Type it is JSON-encoded and Content-Type is set to
\* application/json ({"a": 1} without Content-Type gives {"a": 1} as JSON).
C17_BodySerialization ==
    request.op \in BufferedOps =>
        LET d == request.data_in
            b == request.built
            isjson == ContentType(b) \in {<<"application/json">>, <<"Application/JSON">>}
            isform == ContentType(b) = <<"application/x-www-form-urlencoded">>
        IN  /\ d.kind = "bytes" => request.data = d /\ request.headers = b
            /\ d.kind = "none" => request.data = NoData /\ request.headers = b
            /\ d.kind = "dict" =>
                  /\ request.data.kind = "bytes"
                  /\ isjson => request.data.raw = json_dumps(d.items) /\ request.headers = b
                  /\ isform => request.data.raw = urlencode(d.items) /\ request.headers = b
                  /\ ~isjson /\ ~isform =>
                        /\ request.data.raw = json_dumps(d.items)
                        /\ request.headers =
                              [k \in DOMAIN b \cup {"Content-Type"} |->
                                  IF k = "Content-Type" THEN <<"application/json">> ELSE b[k]]
                  /\ (d.items = <<Item("a", "1", FALSE)>> /\ ~isform) =>
                        request.data.raw = <<"{", "\"", "a", "\"", ": ", "1", "}">>
                  /\ (Len(d.items) = 2 /\ isform) =>
                        request.data.raw =
                            <<"username", "=", "testuser", "&", "q", "=", "x+y">>

C17_Witness ==
    /\ request.op = "put"
    /\ request.data_in = Dict(<<Item("a", "1", FALSE)>>)
    /\ "Content-Type" \notin DOMAIN request.built
    /\ request.headers["Content-Type"] = <<"application/json">>
    /\ request.data = RawBytes(<<"{", "\"", "a", "\"", ": ", "1", "}">>)

\* C18: every request the client hands to the transport, by any public
\* operation, has had each registered middleware function applied to it, in
\* registration order; retries hand over the same transformed request.
C18_MiddlewareOnEveryRequest ==
    \A i \in 1..Len(sent) :
        /\ sent[i].applied = middleware
        /\ sent[i] = sent[1]
====
